---- MODULE Spec2Model ----
(***************************************************************************)
(* The device / swapchain lifecycle and the per-frame CPU/GPU              *)
(* synchronisation protocol of RendererNative/renderer_api.cpp (ABI v3).   *)
(*                                                                         *)
(* The render thread is the only caller (renderer_api.h: "thread-affine"). *)
(* Its position is pc: "idle" between calls, "fence_wait" while            *)
(* begin_frame is blocked in vkWaitForFences.  The GPU is a second process *)
(* that completes queue submissions.  The window and the surface are the   *)
(* environment.                                                            *)
(*                                                                         *)
(* A Vulkan handle is modelled by whether it is non-null.  A call the      *)
(* Vulkan specification leaves undefined (a null or unusable handle, a     *)
(* command buffer in the wrong state, an index past the end of a vector)   *)
(* moves ctx to "undefined", a state that keeps what the call returned    *)
(* and in which nothing further is explored.                               *)
(***************************************************************************)
EXTENDS Integers, Sequences, FiniteSets, TLC

(***************************** return codes ********************************)
FM_OK == 0
FM_E_BADARGS == -2
FM_E_NOMEM == -3
FM_E_DEVICE == -4
FM_E_NOTREADY == -5
FM_E_OUTOFDATE == -6

(******************************* bounds ************************************)
\* largest minImageCount the surface reports
MaxMinImages == 1

(************************** program constants ******************************)
\* create_vertex_buffer: the floor of the requested size, 1u << 16
MinVertexBytes == 65536
\* create_device_impl: the size it asks for, size_t{1} << 20
VertexRequest == 1048576
\* draw_lines_impl: sizeof(float) * 3
BytesPerVertex == 12

(***************************** environment *********************************)
\* client areas of the window: minimized or not
Areas == { <<0, 0>>, <<800, 600>> }

\* the sizes a resize notification carries
ResizeArgs == Areas \cup { <<0, 600>> }

IsZeroArea(a) == a[1] = 0 \/ a[2] = 0

\* what vkGetPhysicalDeviceSurfaceFormatsKHR may return: a list with a preferred
\* format that is not its first entry, and a list without one
FormatLists ==
    { << [format |-> "R8G8B8A8_UNORM", colorSpace |-> "SRGB_NONLINEAR"],
         [format |-> "B8G8R8A8_SRGB", colorSpace |-> "SRGB_NONLINEAR"] >>,
      << [format |-> "R8G8B8A8_UNORM", colorSpace |-> "SRGB_NONLINEAR"] >> }

\* what vkGetPhysicalDeviceSurfaceCapabilitiesKHR may return (maxImageCount 0: no
\* limit): surfaces that hold minImageCount + 1 images, and one capped at one image
CapsSet ==
    { [minImageCount |-> MaxMinImages, maxImageCount |-> 0],
      [minImageCount |-> 1, maxImageCount |-> 1] }

\* vkGetBufferMemoryRequirements: what the driver may add to the size asked for
MemRound == 4096
Roundings == { 0, MemRound }

\* the platforms explored, each fixed for one run: a surface with the longer format
\* list and no image limit on a driver that rounds buffer sizes up, and a surface
\* with the shorter list and one image on a driver that does not
Surfaces ==
    { sf \in [formats : FormatLists, caps : CapsSet, round : Roundings] :
        /\ (Len(sf.formats) = 2) = (sf.caps.maxImageCount = 0)
        /\ (Len(sf.formats) = 2) = (sf.round # 0) }

(******************************* helpers ***********************************)
choose_surface_format(formats) ==
    LET good(f) == /\ f.format \in {"B8G8R8A8_UNORM", "B8G8R8A8_SRGB"}
                   /\ f.colorSpace = "SRGB_NONLINEAR"
        hits == { i \in 1..Len(formats) : good(formats[i]) }
    IN  IF hits # {}
        THEN formats[CHOOSE i \in hits : \A j \in hits : i <= j]
        ELSE formats[1]

\* create_swapchain_objects: imgCount = minImageCount + 1, capped by maxImageCount
ImageCount(caps) ==
    LET want == caps.minImageCount + 1
    IN  IF caps.maxImageCount # 0 /\ want > caps.maxImageCount
        THEN caps.maxImageCount
        ELSE want

\* a vector of n handles of which the first k were created, the rest null
Made(n, k) == [i \in 1..n |-> i <= k]

CountTrue(s) == Cardinality({ i \in 1..Len(s) : s[i] })
CountCbs(s) == Cardinality({ i \in 1..Len(s) : s[i] # "null" })
B2N(b) == IF b THEN 1 ELSE 0

(***************************** device state ********************************)
\* struct Device as its default member initializers leave it
NewDevice ==
    [ instance |-> FALSE, phys |-> FALSE, device |-> FALSE,
      surface |-> FALSE, swap |-> FALSE,
      swapFmt |-> "B8G8R8A8_UNORM", extent |-> <<0, 0>>,
      images |-> 0, views |-> << >>,
      rp |-> FALSE, fbs |-> << >>,
      cmdPool |-> FALSE, cbs |-> << >>,
      semAcquire |-> FALSE, semRender |-> FALSE, fence |-> FALSE,
      curImg |-> 0,
      layout |-> FALSE, pipe |-> FALSE,
      vbuf |-> FALSE, vmem |-> FALSE, vcap |-> 0, vused |-> 0, mapped |-> FALSE,
      color |-> "grey", verts_this_frame |-> 0, pending_draw |-> FALSE,
      needs_recreate |-> FALSE ]

\* the Vulkan objects a Device owns that have been created and not destroyed
LiveObjects(dv) ==
    B2N(dv.instance) + B2N(dv.device) + B2N(dv.surface) + B2N(dv.swap)
    + CountTrue(dv.views) + B2N(dv.rp) + CountTrue(dv.fbs)
    + B2N(dv.cmdPool) + CountCbs(dv.cbs)
    + B2N(dv.semAcquire) + B2N(dv.semRender) + B2N(dv.fence)
    + B2N(dv.layout) + B2N(dv.pipe) + B2N(dv.vbuf) + B2N(dv.vmem)

(************************* swapchain objects *******************************)
\* destroy_swapchain_objects taking the render pass with it
destroy_swapchain_objects_and_pass(dv) ==
    [dv EXCEPT !.fbs = << >>, !.views = << >>, !.images = 0,
               !.cbs = << >>, !.swap = FALSE, !.rp = FALSE]

\* destroy_swapchain_objects
destroy_swapchain_objects(dv) ==
    [dv EXCEPT !.fbs = << >>, !.views = << >>, !.images = 0,
               !.cbs = << >>, !.swap = FALSE]

\* the steps of create_swapchain_objects that can fail, each with the image it fails at
SwapFaults ==
    { [step |-> "none", at |-> 0], [step |-> "swapchain", at |-> 0],
      [step |-> "cmdbufs", at |-> 0] }
    \cup { [step |-> s, at |-> i] : s \in {"view", "framebuffer"}, i \in 0..MaxMinImages }

\* create_swapchain_objects: <<succeeded, the device afterwards>>
create_swapchain_objects(dv, area, sf, f) ==
    LET ic == ImageCount(sf.caps)
        d1 == [dv EXCEPT !.swapFmt = choose_surface_format(sf.formats).format]
        d2 == [d1 EXCEPT !.swap = TRUE, !.extent = area, !.images = ic]
    IN  IF IsZeroArea(area) THEN <<FALSE, dv>>
        ELSE IF f.step = "swapchain" THEN <<FALSE, d1>>
        ELSE IF f.step = "view" /\ f.at < ic
            THEN <<FALSE, [d2 EXCEPT !.views = Made(ic, f.at)]>>
        ELSE IF f.step = "framebuffer" /\ f.at < ic
            THEN <<FALSE, [d2 EXCEPT !.views = Made(ic, ic), !.fbs = Made(ic, f.at)]>>
        ELSE IF f.step = "cmdbufs"
            THEN <<FALSE, [d2 EXCEPT !.views = Made(ic, ic), !.fbs = Made(ic, ic),
                                     !.cbs = [i \in 1..ic |-> "null"]]>>
        ELSE <<TRUE, [d2 EXCEPT !.views = Made(ic, ic), !.fbs = Made(ic, ic),
                                !.cbs = [i \in 1..ic |-> "initial"]]>>

\* create_render_pass
create_render_pass(dv, f) ==
    IF f.step = "renderpass" THEN <<FALSE, dv>> ELSE <<TRUE, [dv EXCEPT !.rp = TRUE]>>

\* create_lines_pipeline: the layout stays in the Device when a later step fails;
\* the two shader modules are destroyed on every path that created them
create_lines_pipeline(dv, f) ==
    IF f.step = "layout" THEN <<FALSE, dv>>
    ELSE IF f.step \in {"vs", "fs", "pipeline"} THEN <<FALSE, [dv EXCEPT !.layout = TRUE]>>
    ELSE <<TRUE, [dv EXCEPT !.layout = TRUE, !.pipe = TRUE]>>

\* create_vertex_buffer: round is what the driver adds to the size asked for
create_vertex_buffer(dv, min_bytes, f, round) ==
    LET bytes == IF min_bytes < MinVertexBytes THEN MinVertexBytes ELSE min_bytes
        size == bytes + round
        b1 == [dv EXCEPT !.vbuf = TRUE]
        b2 == [b1 EXCEPT !.vmem = TRUE]
    IN  IF f.step = "vbuf" THEN <<FALSE, dv>>
        ELSE IF f.step \in {"memtype", "vmem"} THEN <<FALSE, b1>>
        ELSE IF f.step \in {"bind", "map"} THEN <<FALSE, b2>>
        ELSE <<TRUE, [b2 EXCEPT !.mapped = TRUE, !.vcap = size, !.vused = 0]>>

(***************************** create_device *******************************)
\* handle helpers: the address of the Device, which is never null
D2H == 1

\* every step of create_device_impl at which a failure can be injected
CreateFaults ==
    SwapFaults
    \cup { [step |-> s, at |-> 0] :
             s \in { "instance", "surface", "no_gpu", "no_adapter", "device",
                     "cmdPool", "semAcquire", "semRender", "fence", "renderpass",
                     "layout", "vs", "fs", "pipeline",
                     "vbuf", "memtype", "vmem", "bind", "map" } }
    \cup { [step |-> "fb_rebuild", at |-> i] : i \in 0..MaxMinImages }

\* the cleanup of the failure paths after the logical device exists (lines 468-474
\* and 482-488): fence, semaphores, pool, device, surface, instance
destroy_core(dv) ==
    [dv EXCEPT !.fence = FALSE, !.semRender = FALSE, !.semAcquire = FALSE,
               !.cmdPool = FALSE, !.device = FALSE, !.surface = FALSE,
               !.instance = FALSE]

\* the cleanup when the chain could not be built (lines 466-476)
cleanup_swapchain_failed(dv) == destroy_core(dv)

\* the cleanup when the render pass could not be built (lines 479-490)
cleanup_renderpass_failed(dv) == destroy_core(destroy_swapchain_objects(dv))

\* line 397 left out: *out_dev keeps what the caller's variable held
clear_out_kept(h) == h

\* line 397: the output handle is cleared before anything is created
clear_out(h) == 0

\* lines 491-504: the framebuffers are rebuilt against the render pass; one that
\* cannot be created stays null and creation goes on
rebuild_framebuffers(dv, f) ==
    [dv EXCEPT !.fbs = [i \in 1..Len(dv.views) |->
                          ~(f.step = "fb_rebuild" /\ f.at = i - 1)]]

\* lines 506-510 without the short circuit of ||: the vertex buffer is created
\* whether or not the pipeline was
create_buffer_regardless(dv, f, round) ==
    create_vertex_buffer(create_lines_pipeline(dv, f)[2], VertexRequest, f, round)[2]

\* lines 506-510: pipeline, then (only if that succeeded) the vertex buffer; a
\* failure of either is recorded in g_last_error and creation goes on
create_pipeline_and_buffer(dv, f, round) ==
    LET pl == create_lines_pipeline(dv, f)
    IN  IF pl[1] THEN create_vertex_buffer(pl[2], VertexRequest, f, round)[2] ELSE pl[2]

\* create_device_impl.  args: which of out_dev, desc, desc->hwnd are non-null;
\* h: what *out_dev holds at the call.  The result: the return code, *out_dev
\* afterwards, the Device if one is handed out, the objects that were created and
\* are owned by no Device any more, and whether a call was undefined (command
\* buffers allocated from a null pool).
create_device_impl(args, h, area, sf, f) ==
    LET fail(code, left) ==
            [ret |-> code, out |-> clear_out(h), made |-> FALSE, dev |-> NewDevice,
             lost |-> LiveObjects(left), undef |-> FALSE]
        d1 == [NewDevice EXCEPT !.instance = TRUE]
        d2 == [d1 EXCEPT !.surface = TRUE]
        d3 == [d2 EXCEPT !.phys = TRUE]
        d4 == [d3 EXCEPT !.device = TRUE]
        d5 == [d4 EXCEPT !.cmdPool = (f.step # "cmdPool"),
                         !.semAcquire = (f.step # "semAcquire"),
                         !.semRender = (f.step # "semRender"),
                         !.fence = (f.step # "fence")]
        sw == create_swapchain_objects(d5, area, sf, f)
        rp == create_render_pass(sw[2], f)
        d8 == rebuild_framebuffers(rp[2], f)
        d9 == create_pipeline_and_buffer(d8, f, sf.round)
    IN  IF ~args.out \/ ~args.desc \/ ~args.hwnd
        THEN [ret |-> FM_E_BADARGS, out |-> h, made |-> FALSE, dev |-> NewDevice,
              lost |-> 0, undef |-> FALSE]
        ELSE IF f.step = "instance" THEN fail(FM_E_DEVICE, NewDevice)
        ELSE IF f.step = "surface" THEN fail(FM_E_DEVICE, NewDevice)
        ELSE IF f.step \in {"no_gpu", "no_adapter", "device"}
            THEN fail(FM_E_DEVICE, NewDevice)
        ELSE IF ~sw[1] THEN fail(FM_E_DEVICE, cleanup_swapchain_failed(sw[2]))
        ELSE IF ~rp[1] THEN fail(FM_E_DEVICE, cleanup_renderpass_failed(rp[2]))
        ELSE [ret |-> FM_OK, out |-> D2H, made |-> TRUE, dev |-> d9, lost |-> 0,
              undef |-> ~d5.cmdPool]

(************************ recreate / destroy *******************************)
\* line 385 left out: a successful recreation leaves the recreate flag as it was
recreate_done_flag_kept(dv) == dv

\* line 385: a successful recreation clears the recreate flag
recreate_done(dv) == [dv EXCEPT !.needs_recreate = FALSE]

\* recreate_swapchain run only while the recreate flag is set
recreate_swapchain_if_flagged(dv, area, sf, f) ==
    IF IsZeroArea(area) \/ ~dv.needs_recreate THEN <<FALSE, dv>>
    ELSE LET sw == create_swapchain_objects(destroy_swapchain_objects(dv), area, sf, f)
         IN  IF ~sw[1] THEN sw
             ELSE <<TRUE, recreate_done(sw[2])>>

\* recreate_swapchain: <<succeeded, the device afterwards>>.  With a zero client
\* area it returns before anything is touched.
recreate_swapchain(dv, area, sf, f) ==
    IF IsZeroArea(area) THEN <<FALSE, dv>>
    ELSE LET sw == create_swapchain_objects(destroy_swapchain_objects(dv), area, sf, f)
         IN  IF ~sw[1] THEN sw
             ELSE <<TRUE, recreate_done(sw[2])>>

\* n times the call x
Rep(n, x) == [i \in 1..n |-> x]

\* destroy_device_impl, lines 521-538: the releasing calls it makes, in the order
\* it makes them, each named by the member it releases; a null handle is
\* skipped, and the command buffers are freed by one call when the vector is not
\* empty
release_calls(dv) ==
    Rep(B2N(dv.mapped), "mapped") \o Rep(B2N(dv.vbuf), "vbuf")
    \o Rep(B2N(dv.vmem), "vmem")
    \o Rep(B2N(dv.pipe), "pipe") \o Rep(B2N(dv.layout), "layout")
    \o Rep(CountTrue(dv.fbs), "fbs") \o Rep(CountTrue(dv.views), "views")
    \o Rep(B2N(dv.cbs # << >>), "cbs") \o Rep(B2N(dv.swap), "swap")
    \o Rep(B2N(dv.rp), "rp")
    \o Rep(B2N(dv.fence), "fence") \o Rep(B2N(dv.semRender), "semRender")
    \o Rep(B2N(dv.semAcquire), "semAcquire")
    \o Rep(B2N(dv.cmdPool), "cmdPool")
    \o Rep(B2N(dv.surface), "surface")
    \o Rep(B2N(dv.device), "device")
    \o Rep(B2N(dv.instance), "instance")

\* line 519 moved to the end: the objects are released while the device may
\* still be working
destroy_calls_wait_last(dv) == release_calls(dv) \o << "vkDeviceWaitIdle" >>

\* destroy_device_impl, lines 519-538: vkDeviceWaitIdle, then the releases
destroy_calls(dv) == << "vkDeviceWaitIdle" >> \o release_calls(dv)

\* create_device_impl: the members in the order a complete creation creates
\* them; the framebuffers are the ones rebuilt against the render pass
create_order ==
    << "instance", "surface", "device", "cmdPool", "semAcquire", "semRender",
       "fence", "swap", "views", "cbs", "rp", "fbs", "layout", "pipe",
       "vbuf", "vmem", "mapped" >>

\* struct Device: the component a member belongs to
Component(m) ==
    CASE m \in {"mapped", "vbuf", "vmem"} -> "staging buffer"
      [] m \in {"pipe", "layout"} -> "pipeline"
      [] m \in {"swap", "views", "fbs", "cbs"} -> "presentation chain"
      [] m = "rp" -> "render pass"
      [] m \in {"fence", "semRender", "semAcquire"} -> "synchronization primitives"
      [] m = "cmdPool" -> "command pool"
      [] m = "surface" -> "surface"
      [] m = "device" -> "device"
      [] m = "instance" -> "instance"

\* where create_device_impl starts to build a component
CreatedAt(c) ==
    CHOOSE i \in 1..Len(create_order) :
        /\ Component(create_order[i]) = c
        /\ \A j \in 1..(i - 1) : Component(create_order[j]) # c

\* destroy_device_impl after vkDeviceWaitIdle: what is left of the Device
destroy_device_impl(dv) ==
    LET a == [dv EXCEPT !.mapped = FALSE, !.vbuf = FALSE, !.vmem = FALSE,
                        !.pipe = FALSE, !.layout = FALSE]
        b == [destroy_swapchain_objects(a) EXCEPT !.rp = FALSE]
    IN  [b EXCEPT !.fence = FALSE, !.semRender = FALSE, !.semAcquire = FALSE,
                  !.cmdPool = FALSE, !.surface = FALSE, !.device = FALSE,
                  !.instance = FALSE]

(****************************** draw_lines *********************************)
\* line 669: need = (size_t)count * sizeof(float) * 3.  count is a uint32_t and
\* size_t is 64 bits wide in the x64 build, so the product does not wrap.
Need(count) == count * BytesPerVertex

\* line 670 left out: no capacity check
Fits_unchecked(need, vcap) == TRUE

\* line 670: the payload fits the buffer
Fits(need, vcap) == ~(need > vcap)

\* line 673 as an append: the payload is counted on top of what is staged
stage_draw_append(dv, count, color) ==
    [dv EXCEPT !.vused = dv.vused + Need(count), !.verts_this_frame = count,
               !.pending_draw = TRUE, !.color = color]

\* lines 673-676 skipped while a draw is pending: the first draw of a frame wins
stage_draw_first_wins(dv, count, color) ==
    IF dv.pending_draw THEN dv
    ELSE [dv EXCEPT !.vused = Need(count), !.verts_this_frame = count,
                    !.pending_draw = TRUE, !.color = color]

\* lines 672-676: the staged state after a draw that fits
stage_draw(dv, count, color) ==
    [dv EXCEPT !.vused = Need(count), !.verts_this_frame = count,
               !.pending_draw = TRUE, !.color = color]

(******************************** state ************************************)
VARIABLES
    ctx,            \* "none", "live", "destroyed", "undefined"
    d,              \* the Device behind the handle
    outHandle,      \* the caller's fm_handle variable, *out_dev
    leaked,         \* objects created whose Device was deleted without destroying them
    pc,             \* the render thread: "idle" or "fence_wait"
    last,           \* the last call that returned: op, ret, fault injected, valid inputs
    entryFence,     \* while begin_frame runs: whether the fence was signaled at its entry
    winArea,        \* GetClientRect of the window
    surf,           \* the surface's formats and capabilities
    fenceSignaled,  \* the frame fence
    inflight,       \* queue submissions the GPU has not completed
    semAcquireSignaled, \* semAcquire has a signal (pending or arrived) not yet waited on
    semRenderSignaled,  \* the same for semRender
    acquired,       \* images acquired from the chain and not presented
    vdata,          \* the content of the mapped staging buffer: whose payload
    drawn,          \* the draw recorded by the last end_frame
    released        \* the calls destroy_device made, in order

vars == << ctx, d, outHandle, leaked, pc, last, entryFence, winArea, surf,
           fenceSignaled, inflight, semAcquireSignaled, semRenderSignaled,
           acquired, vdata, drawn, released >>

gpuVars == << fenceSignaled, inflight, semAcquireSignaled, semRenderSignaled, acquired >>
envVars == << winArea, surf >>
bufVars == << vdata, drawn >>

NoFault == [step |-> "none", at |-> 0]
NoDraw == [verts |-> 0, color |-> "none", data |-> "none"]

\* the resource-creation counter: objects created and not destroyed
Outstanding == leaked + (IF ctx = "live" THEN LiveObjects(d) + 1 ELSE 0)

Returned(op, ret, f, valid) == [op |-> op, ret |-> ret, fault |-> f, valid |-> valid]

Init ==
    /\ ctx = "none"
    /\ d = NewDevice
    /\ outHandle \in {0, 7}
    /\ leaked = 0
    /\ pc = "idle"
    /\ last = Returned("none", FM_OK, NoFault, TRUE)
    /\ entryFence = FALSE
    /\ winArea \in Areas
    /\ surf \in Surfaces
    /\ fenceSignaled = FALSE
    /\ inflight = 0
    /\ semAcquireSignaled = FALSE
    /\ semRenderSignaled = FALSE
    /\ acquired = {}
    /\ vdata = "none"
    /\ drawn = NoDraw
    /\ released = << >>

(****************************** operations *********************************)
ArgSets ==
    { [out |-> TRUE, desc |-> TRUE, hwnd |-> TRUE],
      [out |-> FALSE, desc |-> TRUE, hwnd |-> TRUE],
      [out |-> TRUE, desc |-> FALSE, hwnd |-> FALSE],
      [out |-> TRUE, desc |-> TRUE, hwnd |-> FALSE] }

ValidArgs(args) == args.out /\ args.desc /\ args.hwnd

\* The state after a call whose behaviour is undefined.  Of the Device nothing is
\* described any more; the state keeps what the call returned and the number of
\* submissions it left outstanding.
Undefined(ret, subs) ==
    /\ ctx' = "undefined"
    /\ d' = NewDevice
    /\ last' = ret
    /\ inflight' = subs
    /\ pc' = "idle"
    /\ entryFence' = FALSE
    /\ fenceSignaled' = FALSE
    /\ semAcquireSignaled' = FALSE
    /\ semRenderSignaled' = FALSE
    /\ acquired' = {}
    /\ vdata' = "none"
    /\ drawn' = NoDraw

\* create_device: the fence is created signaled (line 459).  Every call builds a
\* Device of its own from nothing, so one call is explored per run.
CreateDevice(args, f) ==
    /\ ctx = "none" /\ pc = "idle" /\ last.op = "none"
    /\ LET r == create_device_impl(args, outHandle, winArea, surf, f)
           ret == Returned("create_device", r.ret, f, ValidArgs(args))
       IN  /\ outHandle' = IF args.out THEN r.out ELSE outHandle
           /\ leaked' = leaked + r.lost
           /\ IF r.undef
              THEN Undefined(ret, 0)
              ELSE /\ ctx' = IF r.made THEN "live" ELSE "none"
                   /\ d' = r.dev
                   /\ fenceSignaled' = r.dev.fence
                   /\ last' = ret
                   /\ UNCHANGED << pc, entryFence, inflight, semAcquireSignaled,
                                   semRenderSignaled, acquired, bufVars >>
    /\ UNCHANGED << envVars, released >>

\* destroy_device: vkDeviceWaitIdle, then every object is destroyed and the Device deleted
DestroyDevice ==
    /\ ctx = "live" /\ pc = "idle"
    /\ ctx' = "destroyed"
    /\ leaked' = leaked + LiveObjects(destroy_device_impl(d))
    /\ d' = NewDevice
    /\ inflight' = 0
    /\ fenceSignaled' = FALSE
    /\ semAcquireSignaled' = FALSE
    /\ semRenderSignaled' = FALSE
    /\ acquired' = {}
    /\ vdata' = "none"
    /\ drawn' = NoDraw
    /\ entryFence' = FALSE
    /\ last' = Returned("destroy_device", FM_OK, NoFault, TRUE)
    /\ released' = destroy_calls(d)
    /\ UNCHANGED << outHandle, pc, envVars >>

\* what vkDeviceWaitIdle leaves: every submission completed, so the fence of a
\* submission that was outstanding is signaled and its command buffer executable
Completed(cbs) == [i \in 1..Len(cbs) |-> IF cbs[i] = "pending" THEN "executable" ELSE cbs[i]]

\* the GPU side of recreate_swapchain once it is past the client-area check: the
\* device is idle and the images of the old chain are gone
DeviceIdleNewChain ==
    /\ inflight' = 0
    /\ fenceSignaled' = (fenceSignaled \/ inflight > 0)
    /\ acquired' = {}
    /\ drawn' = NoDraw
    /\ UNCHANGED << semAcquireSignaled, semRenderSignaled >>

\* line 546 left out: a zero size is handled like any other
resize_defers_never(w, h) == FALSE

\* line 546: a notification with a zero dimension defers the recreation
resize_defers(w, h) == w = 0 \/ h = 0

\* resize_swapchain_impl
ResizeSwapchain(w, h, f) ==
    /\ ctx = "live" /\ pc = "idle"
    /\ IF resize_defers(w, h)
       THEN /\ f = NoFault
            /\ d' = [d EXCEPT !.needs_recreate = TRUE]
            /\ last' = Returned("resize_swapchain", FM_OK, NoFault, TRUE)
            /\ UNCHANGED << gpuVars, drawn >>
       ELSE LET r == recreate_swapchain([d EXCEPT !.needs_recreate = TRUE], winArea, surf, f)
            IN  /\ d' = r[2]
                /\ last' = Returned("resize_swapchain",
                                    IF r[1] THEN FM_OK ELSE FM_E_DEVICE, f, TRUE)
                /\ IF IsZeroArea(winArea)
                   THEN f = NoFault /\ UNCHANGED << gpuVars, drawn >>
                   ELSE DeviceIdleNewChain
    /\ UNCHANGED << ctx, outHandle, leaked, pc, entryFence, envVars, vdata, released >>

\* lines 557-559 left out: begin_frame never looks at the recreate flag
needs_recreate_load_never(dv) == FALSE

\* line 557: the recreate flag as begin_frame reads it
needs_recreate_load(dv) == dv.needs_recreate

\* lines 554-555 left out: begin_frame goes on whatever the client area is
begin_frame_not_ready_never(area) == FALSE

\* lines 554-555: begin_frame gives up when the client area is zero in either
\* dimension
begin_frame_not_ready(area) == IsZeroArea(area)

\* begin_frame_impl, lines 552-561: up to the wait for the fence
BeginFrameEnter(f) ==
    /\ ctx = "live" /\ pc = "idle"
    /\ IF begin_frame_not_ready(winArea)
       THEN /\ f = NoFault
            /\ last' = Returned("begin_frame", FM_E_NOTREADY, NoFault, TRUE)
            /\ UNCHANGED << d, pc, gpuVars, drawn >>
       ELSE IF needs_recreate_load(d)
       THEN LET r == recreate_swapchain(d, winArea, surf, f)
            IN  /\ d' = r[2]
                /\ DeviceIdleNewChain
                /\ IF r[1]
                   THEN pc' = "fence_wait" /\ UNCHANGED last
                   ELSE /\ pc' = "idle"
                        /\ last' = Returned("begin_frame", FM_E_NOTREADY, f, TRUE)
       ELSE /\ f = NoFault
            /\ pc' = "fence_wait"
            /\ UNCHANGED << d, last, gpuVars, drawn >>
    /\ entryFence' = (pc' = "fence_wait" /\ fenceSignaled)
    /\ UNCHANGED << ctx, outHandle, leaked, envVars, vdata, released >>

\* what vkAcquireNextImageKHR can answer
AcquireResults == { "SUCCESS", "SUBOPTIMAL", "OUT_OF_DATE", "ERROR" }

\* lines 566-569: the acquire results begin_frame takes for staleness
acquire_stale(aq) == aq \in { "OUT_OF_DATE", "SUBOPTIMAL" }

\* lines 566-573 and 597: what begin_frame returns for an acquire result
begin_frame_ret(aq) ==
    IF acquire_stale(aq) THEN FM_E_OUTOFDATE
    ELSE IF aq # "SUCCESS" THEN FM_E_DEVICE ELSE FM_OK

\* lines 574-578: the acquired image becomes the current one and its command
\* buffer is begun
begin_recording(dv, idx) == [dv EXCEPT !.curImg = idx, !.cbs[idx + 1] = "recording"]

\* line 561 left out: begin_frame goes on without waiting for the fence
fence_wait_skipped(dv, signaled) == TRUE

\* line 561: vkWaitForFences with an unbounded timeout returns once the fence is
\* signaled (a null fence is not waited for)
fence_wait_returns(dv, signaled) == dv.fence => signaled

\* begin_frame_impl, lines 561-597: vkWaitForFences has returned.  An acquire that
\* answers SUCCESS or SUBOPTIMAL hands out image idx and will signal semAcquire.
BeginFrameResume(aq, idx) ==
    /\ ctx = "live" /\ pc = "fence_wait"
    /\ fence_wait_returns(d, fenceSignaled)
    /\ aq \in {"SUCCESS", "SUBOPTIMAL"} => idx \in (0..(d.images - 1)) \ acquired
    /\ aq \in {"OUT_OF_DATE", "ERROR"} => idx = 0
    /\ LET got == aq \in {"SUCCESS", "SUBOPTIMAL"}
           rec == aq = "SUCCESS"
           undef == \/ ~d.fence \/ ~d.swap \/ ~d.semAcquire
                    \/ semAcquireSignaled
                    \/ rec /\ ( \/ idx >= Len(d.cbs) \/ idx >= Len(d.fbs)
                                \/ ~d.rp
                                \/ ~d.fbs[idx + 1]
                                \/ d.cbs[idx + 1] \notin {"initial", "executable"} )
           ret == Returned("begin_frame", begin_frame_ret(aq), NoFault, TRUE)
       IN  IF undef
           THEN Undefined(ret, inflight)
           ELSE /\ fenceSignaled' = FALSE
                /\ semAcquireSignaled' = got
                /\ acquired' = IF got THEN acquired \cup {idx} ELSE acquired
                /\ d' = IF acquire_stale(aq) THEN [d EXCEPT !.needs_recreate = TRUE]
                        ELSE IF aq # "SUCCESS" THEN d
                        ELSE begin_recording(d, idx)
                /\ last' = ret
                /\ pc' = "idle"
                /\ entryFence' = FALSE
                /\ UNCHANGED << ctx, inflight, semRenderSignaled, bufVars >>
    /\ UNCHANGED << outHandle, leaked, envVars, released >>

DrawCounts ==
    { 0, 2, VertexRequest \div BytesPerVertex + 1,
      (VertexRequest + MemRound) \div BytesPerVertex + 1 }

\* the vertex arrays the caller draws, each with its color
Draws == { [color |-> "red", payload |-> "A"], [color |-> "blue", payload |-> "B"] }

\* draw_lines_impl.  xyz: whether the vertex pointer is non-null
DrawLines(xyz, count, color, payload) ==
    /\ ctx = "live" /\ pc = "idle"
    /\ LET ret(code) == Returned("draw_lines", code, NoFault, TRUE)
       IN  IF ~xyz \/ count = 0
           THEN last' = ret(FM_OK) /\ UNCHANGED << ctx, d, vdata >>
           ELSE IF ~Fits(Need(count), d.vcap)
           THEN last' = ret(FM_E_NOMEM) /\ UNCHANGED << ctx, d, vdata >>
           ELSE /\ vdata' = payload
                /\ d' = stage_draw(d, count, color)
                /\ last' = ret(FM_OK)
                /\ UNCHANGED ctx
    /\ UNCHANGED << outHandle, leaked, pc, entryFence, envVars, gpuVars, drawn,
                    released >>

\* end_frame_impl
EndFrame ==
    /\ ctx = "live" /\ pc = "idle"
    /\ IF d.cbs = << >>
       THEN /\ last' = Returned("end_frame", FM_OK, NoFault, TRUE)
            /\ UNCHANGED << ctx, d, pc, entryFence, gpuVars, bufVars >>
       ELSE LET oob == d.curImg >= Len(d.cbs)
                cb == IF oob THEN "null" ELSE d.cbs[d.curImg + 1]
                draws == d.pending_draw /\ d.verts_this_frame > 0
                undef == \/ oob \/ cb # "recording"
                         \/ draws /\ (~d.pipe \/ ~d.layout \/ ~d.vbuf)
                         \/ ~d.semAcquire \/ ~d.semRender \/ ~d.fence
                         \/ ~semAcquireSignaled \/ semRenderSignaled
                         \/ fenceSignaled \/ inflight > 0
            IN  IF undef
                THEN Undefined(Returned("end_frame", FM_OK, NoFault, TRUE), inflight + 1)
                ELSE /\ d' = [d EXCEPT !.pending_draw = FALSE, !.vused = 0,
                                       !.verts_this_frame = 0,
                                       !.cbs[d.curImg + 1] = "pending"]
                     /\ drawn' = IF draws
                                 THEN [verts |-> d.verts_this_frame, color |-> d.color,
                                       data |-> vdata]
                                 ELSE NoDraw
                     /\ inflight' = inflight + 1
                     /\ semAcquireSignaled' = FALSE
                     /\ semRenderSignaled' = TRUE
                     /\ last' = Returned("end_frame", FM_OK, NoFault, TRUE)
                     /\ UNCHANGED << ctx, pc, entryFence, fenceSignaled, acquired, vdata >>
    /\ UNCHANGED << outHandle, leaked, envVars, released >>

\* what vkQueuePresentKHR can answer
PresentResults == { "SUCCESS", "SUBOPTIMAL", "OUT_OF_DATE", "ERROR" }

\* lines 641-644 left out: a stale present is reported like any other failure
present_ret_stale_fails(pr) == IF pr = "SUCCESS" THEN FM_OK ELSE FM_E_DEVICE

\* lines 641-645: what present returns for a present result
present_ret(pr) ==
    IF pr \in {"OUT_OF_DATE", "SUBOPTIMAL"} THEN FM_E_OUTOFDATE
    ELSE IF pr = "SUCCESS" THEN FM_OK ELSE FM_E_DEVICE

\* present_impl.  Unless the queue is lost the request is enqueued: it waits on
\* semRender and gives the image back.
Present(pr) ==
    /\ ctx = "live" /\ pc = "idle"
    /\ LET undef == \/ ~d.swap \/ ~d.semRender \/ ~semRenderSignaled
                    \/ d.curImg \notin acquired
           ret == Returned("present", present_ret(pr), NoFault, TRUE)
       IN  IF undef
           THEN Undefined(ret, inflight)
           ELSE /\ d' = IF pr \in {"OUT_OF_DATE", "SUBOPTIMAL"}
                        THEN [d EXCEPT !.needs_recreate = TRUE] ELSE d
                /\ semRenderSignaled' = IF pr = "ERROR" THEN semRenderSignaled ELSE FALSE
                /\ acquired' = IF pr = "ERROR" THEN acquired ELSE acquired \ {d.curImg}
                /\ last' = ret
                /\ UNCHANGED << ctx, pc, entryFence, fenceSignaled, inflight,
                                semAcquireSignaled, bufVars >>
    /\ UNCHANGED << outHandle, leaked, envVars, released >>

\* the GPU completes a submission: its fence is signaled
GpuComplete ==
    /\ ctx = "live" /\ inflight > 0
    /\ inflight' = inflight - 1
    /\ fenceSignaled' = TRUE
    /\ d' = [d EXCEPT !.cbs = Completed(d.cbs)]
    /\ drawn' = NoDraw
    /\ UNCHANGED << ctx, outHandle, leaked, pc, last, entryFence, envVars,
                    semAcquireSignaled, semRenderSignaled, acquired, vdata, released >>

\* the window is resized, minimized or restored
WindowChange(a) ==
    /\ ctx \in {"none", "live"}
    /\ a # winArea
    /\ winArea' = a
    /\ UNCHANGED << ctx, d, outHandle, leaked, pc, last, entryFence, surf, gpuVars,
                    bufVars, released >>

Next ==
    \/ \E args \in ArgSets, f \in CreateFaults : CreateDevice(args, f)
    \/ DestroyDevice
    \/ \E a \in ResizeArgs, f \in SwapFaults : ResizeSwapchain(a[1], a[2], f)
    \/ \E f \in SwapFaults : BeginFrameEnter(f)
    \/ \E aq \in AcquireResults, idx \in 0..MaxMinImages : BeginFrameResume(aq, idx)
    \/ \E xyz \in BOOLEAN, count \in DrawCounts, w \in Draws :
          DrawLines(xyz, count, w.color, w.payload)
    \/ EndFrame
    \/ \E pr \in PresentResults : Present(pr)
    \/ GpuComplete
    \/ \E a \in Areas : WindowChange(a)

Spec == Init /\ [][Next]_vars

(******************************* claims ************************************)
\* begin_frame is blocked in vkWaitForFences on a fence that nothing will signal:
\* it is unsignaled and no submission is outstanding
FenceNeverSignaled == pc = "fence_wait" /\ d.fence /\ ~fenceSignaled /\ inflight = 0

NoRecording(dv) == \A i \in 1..Len(dv.cbs) : dv.cbs[i] # "recording"

\* C1: for every create_device call with valid inputs, whatever step fails or none,
\* the return code is OK if and only if the output handle is non-zero
C1_OkIffHandle ==
    (last.op = "create_device" /\ last.valid) => ((last.ret = FM_OK) <=> (outHandle # 0))

\* a creation that failed at the render pass returned an error and a zero handle
C1_Witness ==
    /\ last.op = "create_device" /\ last.valid /\ last.fault.step = "renderpass"
    /\ last.ret = FM_E_DEVICE /\ outHandle = 0 /\ ctx = "none"

\* C2: on every non-OK return of create_device everything the call created has been
\* destroyed: created minus destroyed is zero
C2_NoLeakOnFailure ==
    (last.op = "create_device" /\ last.ret # FM_OK) => Outstanding = 0

\* C3: a context handed out by create_device is complete: a chain, a render pass,
\* one non-null framebuffer per image, a pipeline and a mapped staging buffer
C3_NoPartialContext ==
    (last.op = "create_device" /\ last.ret = FM_OK /\ outHandle # 0 /\ ctx = "live")
    => /\ d.swap /\ d.rp /\ d.pipe /\ d.mapped
       /\ Len(d.fbs) = d.images
       /\ \A i \in 1..Len(d.fbs) : d.fbs[i]

\* C4: a begin_frame retried after OUTOFDATE or NOTREADY, with a non-zero client
\* area and a GPU that completes what it was given, does not block forever on the fence
C4_RetryNotBlocked ==
    ~( /\ last.op = "begin_frame" /\ last.ret \in {FM_E_OUTOFDATE, FM_E_NOTREADY}
       /\ ~IsZeroArea(winArea)
       /\ FenceNeverSignaled )

\* C5: a begin_frame whose acquire reports staleness sets the recreate flag and
\* returns OUTOFDATE having consumed nothing: no command buffer is recording, the
\* fence is as signaled as when the call started, semAcquire carries no signal and
\* the current image index is unchanged
C5_StaleConsumesNothing ==
    [][ (/\ pc = "fence_wait" /\ pc' = "idle" /\ ctx' = "live"
         /\ last'.op = "begin_frame" /\ last'.ret = FM_E_OUTOFDATE)
        => /\ d'.needs_recreate
           /\ NoRecording(d')
           /\ fenceSignaled' = entryFence
           /\ ~semAcquireSignaled'
           /\ d'.curImg = d.curImg ]_vars

\* the call before this one was a begin_frame that returned OUTOFDATE
AfterStale ==
    ctx = "live" /\ pc = "idle" /\ last.op = "begin_frame" /\ last.ret = FM_E_OUTOFDATE

\* the chain was built by this call: no image of it is acquired, no command buffer used
FreshChain == acquired = {} /\ d.swap /\ \A i \in 1..Len(d.cbs) : d.cbs[i] = "initial"

\* C6: a begin_frame whose acquire reports staleness returns OUTOFDATE with the
\* recreate flag set; the begin_frame that follows it, the client area being
\* non-zero, rebuilds the chain, and an acquire is attempted only once a rebuild
\* has succeeded and cleared the flag
C6_StaleThenRebuild ==
    [][ /\ \A aq \in AcquireResults, idx \in 0..MaxMinImages :
             (pc = "fence_wait" /\ acquire_stale(aq) /\ ctx' = "live" /\ BeginFrameResume(aq, idx))
             => (last'.ret = FM_E_OUTOFDATE /\ d'.needs_recreate)
        /\ (AfterStale /\ ~IsZeroArea(winArea) /\ \E f \in SwapFaults : BeginFrameEnter(f))
             => \/ pc' = "fence_wait" /\ ~d'.needs_recreate /\ FreshChain'
                \/ pc' = "idle" /\ last'.ret = FM_E_NOTREADY /\ d'.needs_recreate
        /\ (pc = "fence_wait" /\ pc' = "idle") => ~d.needs_recreate ]_vars

\* the begin_frame after a stale one has rebuilt the chain and stands before the acquire
C6_Witness ==
    /\ ctx = "live" /\ pc = "fence_wait"
    /\ last.op = "begin_frame" /\ last.ret = FM_E_OUTOFDATE
    /\ ~d.needs_recreate /\ FreshChain

\* C7: after resize notifications (to (0,0), then to a non-zero size) begin_frame is
\* not left blocked: the begin_frame that follows a successful resize does not wait
\* on a fence that nothing will signal
C7_ResizeNotStuck ==
    ~( /\ last.op = "resize_swapchain" /\ last.ret = FM_OK
       /\ ~IsZeroArea(winArea) /\ ~d.needs_recreate
       /\ ~semAcquireSignaled
       /\ FenceNeverSignaled )

\* C8: create_device called while the client area is 0x0, with valid inputs and
\* nothing failing, returns a context
C8_CreateMinimized ==
    (last.op = "create_device" /\ last.valid /\ last.fault = NoFault /\ IsZeroArea(winArea))
    => (ctx = "live" /\ last.ret = FM_OK /\ outHandle # 0)

\* C9: a draw_lines whose payload, count * 12 bytes, exceeds the capacity returns
\* NOMEM and changes neither the staged state (used bytes, vertex count, pending
\* flag, color) nor the buffer's content
C9_OverflowRejected ==
    [][ (pc = "idle" /\ last'.op = "draw_lines")
        => \A xyz \in BOOLEAN, c \in DrawCounts, w \in Draws :
             (/\ xyz /\ c > 0 /\ c * BytesPerVertex > d.vcap
              /\ DrawLines(xyz, c, w.color, w.payload))
             => (last'.ret = FM_E_NOMEM /\ d' = d /\ vdata' = vdata) ]_vars

\* a draw was staged and the draw after it was rejected
C9_Witness ==
    /\ ctx = "live" /\ last.op = "draw_lines" /\ last.ret = FM_E_NOMEM
    /\ d.pending_draw /\ d.vused > 0 /\ d.verts_this_frame > 0 /\ vdata # "none"

\* C10: the used byte count never exceeds the capacity, and no call on a live
\* context changes the capacity
C10_UsedWithinCapacity ==
    /\ [](d.vused <= d.vcap)
    /\ [][(ctx = "live" /\ ctx' = "live") => d'.vcap = d.vcap]_vars

\* a draw larger than the size asked for is staged in a buffer the driver rounded up
C10_Witness ==
    /\ ctx = "live" /\ d.pending_draw
    /\ d.vused > VertexRequest /\ d.vused <= d.vcap

\* create_device built everything that is not part of the chain
CreatedWhole ==
    /\ d.rp /\ d.cmdPool /\ d.semAcquire /\ d.semRender /\ d.fence
    /\ d.pipe /\ d.mapped

\* C11: after every end_frame call on a live context the pending-draw flag is clear
\* and the staged usage (used bytes, staged vertex count) is zero
C11_EndFrameClears ==
    (ctx = "live" /\ CreatedWhole /\ last.op = "end_frame")
    => (~d.pending_draw /\ d.vused = 0 /\ d.verts_this_frame = 0)

C13_ZeroResizeDefers ==
    [][ /\ (pc = "idle" /\ last'.op = "resize_swapchain")
           => \A a \in ResizeArgs :
                (IsZeroArea(a) /\ ResizeSwapchain(a[1], a[2], NoFault))
                => /\ d' = [d EXCEPT !.needs_recreate = TRUE]
                   /\ last'.ret = FM_OK
                   /\ UNCHANGED << gpuVars, bufVars >>
        /\ (pc = "idle" /\ last'.op = "resize_swapchain"
            /\ d.needs_recreate /\ ~IsZeroArea(winArea))
           => \A a \in ResizeArgs :
                (~IsZeroArea(a) /\ ResizeSwapchain(a[1], a[2], last'.fault))
                => \/ last'.ret = FM_OK /\ ~d'.needs_recreate /\ FreshChain'
                   \/ /\ last'.ret = FM_E_DEVICE /\ d'.needs_recreate
                      /\ last'.fault # NoFault
        /\ (ctx = "live" /\ pc = "idle" /\ d.needs_recreate /\ ~IsZeroArea(winArea)
            /\ (pc' = "fence_wait" \/ last'.op = "begin_frame")
            /\ \E f \in SwapFaults : BeginFrameEnter(f))
           => \/ pc' = "fence_wait" /\ ~d'.needs_recreate /\ FreshChain'
              \/ pc' = "idle" /\ last'.ret = FM_E_NOTREADY /\ d'.needs_recreate ]_vars

\* a resize to a zero size returned OK on a context in the middle of a frame: the
\* flag is set, the chain and the recording command buffer are still there
C13_Witness ==
    /\ ctx = "live" /\ CreatedWhole
    /\ last.op = "resize_swapchain" /\ last.ret = FM_OK
    /\ d.needs_recreate /\ d.swap /\ ~NoRecording(d) /\ acquired # {}

\* non-zero client areas a recreation may find
ClientSizes == { a \in Areas \cup { <<1024, 768>> } : ~IsZeroArea(a) }

\* C14: running the chain recreation twice in succession, the client area and the
\* surface being the same and nothing failing, is idempotent: both runs succeed,
\* and extent, format and image count (and the lengths of the per-image vectors)
\* after the second run are those after the first
C14_RecreateIdempotent ==
    ctx = "live"
    => \A a \in ClientSizes :
         LET r1 == recreate_swapchain(d, a, surf, NoFault)
             r2 == recreate_swapchain(r1[2], a, surf, NoFault)
         IN  /\ r1[1] /\ r2[1]
             /\ r1[2].extent = a /\ r2[2].extent = r1[2].extent
             /\ r2[2].swapFmt = r1[2].swapFmt
             /\ r2[2].images = r1[2].images
             /\ Len(r2[2].views) = Len(r1[2].views)
             /\ Len(r2[2].fbs) = Len(r1[2].fbs)
             /\ Len(r2[2].cbs) = Len(r1[2].cbs)
             /\ ~r2[2].needs_recreate

\* a recreation has run on a chain that a recreation had built: the chain is new,
\* its extent is the client area and its image count what the surface gives
C14_Witness ==
    /\ ctx = "live" /\ CreatedWhole
    /\ last.op = "resize_swapchain" /\ last.ret = FM_OK
    /\ ~d.needs_recreate /\ FreshChain
    /\ d.extent = winArea /\ d.images = ImageCount(surf.caps)
    /\ d.swapFmt = choose_surface_format(surf.formats).format
    /\ recreate_swapchain(d, winArea, surf, NoFault) = <<TRUE, d>>

\* C15: create_device called with a null window handle or a null descriptor (and
\* an output pointer) fails with BADARGS, creates no object, and the output
\* handle is zero afterwards
C15_BadArgsZeroHandle ==
    [][ (pc = "idle" /\ last'.op = "create_device")
        => \A args \in ArgSets :
             (args.out /\ (~args.desc \/ ~args.hwnd) /\ CreateDevice(args, last'.fault))
             => /\ last'.ret = FM_E_BADARGS
                /\ ctx' = "none" /\ Outstanding' = 0
                /\ outHandle' = 0 ]_vars

\* a frame is begun: begin_frame returned OK and the command buffer of the current
\* image is recording
InFrame ==
    /\ ctx = "live" /\ pc = "idle"
    /\ d.curImg < Len(d.cbs) /\ d.cbs[d.curImg + 1] = "recording"

\* C16 as stated: for every sequence of API calls at most one queue submission is
\* outstanding at any moment
C16_SingleInFlightAnyCalls ==
    [][(ctx = "live" /\ CreatedWhole) => inflight' <= 1]_vars

\* C16 amended: for every sequence of API calls in which end_frame is called only
\* to end a frame that begin_frame began, at most one queue submission is
\* outstanding: such an end_frame submits when nothing is outstanding
C16_SingleInFlight ==
    /\ [][(InFrame /\ last'.op = "end_frame") => (inflight = 0 /\ inflight' = 1)]_vars
    /\ [](ctx = "live" => inflight <= 1)

\* end_frame has submitted a frame that begin_frame began, and it is in flight
C16_Witness ==
    /\ ctx = "live" /\ CreatedWhole /\ last.op = "end_frame"
    /\ inflight = 1 /\ ~fenceSignaled
    /\ d.curImg < Len(d.cbs) /\ d.cbs[d.curImg + 1] = "pending"
    /\ Len(d.cbs) > 1

\* this step is a draw_lines call that copies vertices into the staging buffer
DrawWrites ==
    /\ pc = "idle" /\ last'.op = "draw_lines" /\ last'.ret = FM_OK
    /\ \E c \in DrawCounts, w \in Draws :
         c > 0 /\ ~(c * BytesPerVertex > d.vcap) /\ DrawLines(TRUE, c, w.color, w.payload)

\* a submission that reads the staging buffer is outstanding
GpuReadsBuffer == inflight > 0 /\ drawn # NoDraw

\* C17 as stated: whatever the API calls and whenever the GPU completes, draw_lines
\* never writes the staging buffer while a submission that reads it is outstanding
C17_NoReuseAnyCalls ==
    [][(ctx = "live" /\ CreatedWhole /\ DrawWrites) => ~GpuReadsBuffer]_vars

\* C17 amended: a draw_lines called within a frame that begin_frame began never
\* writes the staging buffer, and begin_frame never starts recording a command
\* buffer, while a GPU submission is outstanding, whenever the GPU completes
C17_NoReuseInFrame ==
    [][ /\ (InFrame /\ last'.op = "draw_lines") => inflight = 0
        /\ (pc = "fence_wait" /\ pc' = "idle" /\ last'.ret = FM_OK)
           => /\ inflight = 0
              /\ ctx' = "live" => d.cbs[d'.curImg + 1] # "pending" ]_vars

\* a draw was staged within a frame after an earlier frame's submission completed
C17_Witness ==
    /\ InFrame /\ CreatedWhole
    /\ last.op = "draw_lines" /\ last.ret = FM_OK /\ d.pending_draw
    /\ inflight = 0 /\ drawn = NoDraw
    /\ \E i \in 1..Len(d.cbs) : d.cbs[i] = "executable"

\* Idle: no image is acquired, no semaphore carries a signal, no command buffer
\* is being recorded
IdlePhase ==
    /\ ctx = "live"
    /\ acquired = {} /\ ~semAcquireSignaled /\ ~semRenderSignaled
    /\ NoRecording(d)

\* Recording: the command buffer of the current image is begun, the image is
\* acquired and semAcquire carries the acquire's signal
Recording ==
    /\ InFrame
    /\ acquired = {d.curImg} /\ semAcquireSignaled /\ ~semRenderSignaled

\* Submitted: the command buffer of the current image was submitted, semRender
\* carries its signal, the image is still acquired
Submitted ==
    /\ ctx = "live" /\ pc = "idle"
    /\ d.curImg < Len(d.cbs) /\ d.cbs[d.curImg + 1] \in {"pending", "executable"}
    /\ acquired = {d.curImg} /\ semRenderSignaled /\ ~semAcquireSignaled

\* C18: the frame goes Idle, Acquiring, Recording, Submitted, Idle: a begin_frame
\* called in Idle that returns OK has acquired an image and begun its command
\* buffer; the submission made by end_frame is that of the frame just acquired
\* and begun, and is the only one in flight; the present uses that frame's image
\* index after its submission and gives the image back.  Stated on the calls
\* made in phase order, which every sequence of calls the claim covers includes
C18_FrameProtocol ==
    [][ /\ (IdlePhase /\ pc = "fence_wait" /\ pc' = "idle"
            /\ last'.ret = FM_OK /\ ctx' = "live")
           => (Recording' /\ inflight' = 0)
        /\ (Recording /\ last'.op = "end_frame")
           => (Submitted' /\ d'.curImg = d.curImg /\ inflight' = 1)
        /\ (Submitted /\ last'.op = "present")
           => /\ ctx' = "live" /\ d'.curImg = d.curImg
              /\ last'.ret # FM_E_DEVICE => IdlePhase' ]_vars

\* C19: the recreate flag is cleared only by a recreation that succeeded.  A step
\* of a live context that clears the flag is a resize_swapchain that returned OK
\* or a begin_frame going on to its fence wait, with a non-zero client area and
\* a new chain of that size; every other step, a recreation aborted for a zero
\* client area or failed included, leaves a set flag set.  Right after every
\* successful recreation the flag is clear.
C19_FlagClearedBySuccess ==
    [][ (ctx = "live" /\ ctx' = "live")
        => /\ (d.needs_recreate /\ ~d'.needs_recreate)
              => /\ pc = "idle" /\ ~IsZeroArea(winArea)
                 /\ FreshChain' /\ d'.extent = winArea
                 /\ \/ last'.op = "resize_swapchain" /\ last'.ret = FM_OK /\ pc' = "idle"
                    \/ pc' = "fence_wait"
           /\ (pc = "idle" /\ last'.op = "resize_swapchain" /\ last'.ret = FM_OK
               /\ \E a \in ResizeArgs :
                     ~IsZeroArea(a) /\ ResizeSwapchain(a[1], a[2], last'.fault))
              => (~d'.needs_recreate /\ FreshChain')
           /\ (pc = "idle" /\ pc' = "fence_wait" /\ d.needs_recreate)
              => (~d'.needs_recreate /\ FreshChain')
           /\ (pc = "idle" /\ pc' = "idle" /\ d.needs_recreate
               /\ last'.op \in {"resize_swapchain", "begin_frame"}
               /\ last'.ret \in {FM_E_DEVICE, FM_E_NOTREADY})
              => d'.needs_recreate ]_vars

\* a failed recreation in begin_frame kept the flag set; the next begin_frame
\* recreated the chain and cleared it
C19_Witness ==
    /\ ctx = "live" /\ CreatedWhole /\ pc = "fence_wait"
    /\ last.op = "begin_frame" /\ last.ret = FM_E_NOTREADY /\ last.fault # NoFault
    /\ ~d.needs_recreate /\ FreshChain /\ d.extent = winArea

\* C20: begin_frame called while the client area is zero in either dimension
\* returns NOTREADY at once and changes nothing: the fence is neither waited on
\* nor reset, no image is acquired, no recreation is run, and the recreate flag,
\* the chain, the current image index, the staged draw and the buffer are as
\* they were
C20_ZeroAreaBeginNoChange ==
    [][ (ctx = "live" /\ pc = "idle" /\ IsZeroArea(winArea)
         /\ (pc' = "fence_wait" \/ last'.op = "begin_frame")
         /\ \E f \in SwapFaults : BeginFrameEnter(f))
        => /\ last'.op = "begin_frame" /\ last'.ret = FM_E_NOTREADY
           /\ ctx' = "live" /\ pc' = "idle"
           /\ d' = d
           /\ UNCHANGED << gpuVars, bufVars, outHandle, leaked >> ]_vars

\* begin_frame returned NOTREADY for a zero client area while the recreate flag
\* was set, a submission was in flight and a draw was staged
C20_Witness ==
    /\ ctx = "live" /\ CreatedWhole /\ pc = "idle" /\ IsZeroArea(winArea)
    /\ last.op = "begin_frame" /\ last.ret = FM_E_NOTREADY /\ last.fault = NoFault
    /\ d.needs_recreate /\ d.swap /\ d.pending_draw
    /\ inflight = 1 /\ ~fenceSignaled

\* the releasing calls of a destroy_device, without the wait
Releases == SelectSeq(released, LAMBDA m : m # "vkDeviceWaitIdle")

\* the order in which C21 lists the components
ListedOrder ==
    << "staging buffer", "pipeline", "presentation chain", "render pass",
       "synchronization primitives", "command pool", "surface", "device",
       "instance" >>

ListedAt(c) == CHOOSE i \in 1..Len(ListedOrder) : ListedOrder[i] = c

\* destroy_device waits for the device first, releases every object the Device
\* holds exactly once, and releases them in the listed order.  The releases are
\* the calls from the second on.
DestroyWaitsThenReleasesInListedOrder ==
    /\ [](ctx = "destroyed"
          => /\ released # << >> /\ Head(released) = "vkDeviceWaitIdle"
             /\ \A i \in 2..Len(released) : released[i] # "vkDeviceWaitIdle"
             /\ \A i \in 2..(Len(released) - 1) :
                   ListedAt(Component(released[i]))
                      <= ListedAt(Component(released[i + 1]))
             /\ \A i, j \in 2..Len(released) :
                   (i < j /\ released[i] = released[j])
                      => released[i] \in {"fbs", "views"})
    /\ [][ (ctx = "live" /\ ctx' = "destroyed")
           => /\ Len(SelectSeq(released',
                      LAMBDA m : m \notin {"vkDeviceWaitIdle", "mapped", "cbs"}))
                   = LiveObjects(d) - CountCbs(d.cbs)
              /\ (d.cbs # << >>) <=> (\E i \in 2..Len(released') : released'[i] = "cbs")
              /\ leaked' = leaked ]_vars

\* C21 as stated: destroy_device waits for the device before it releases
\* anything, then releases each object exactly once in the order staging buffer,
\* pipeline, presentation chain, render pass, synchronization primitives, command
\* pool, surface, device, instance, and that order is exactly the reverse of the
\* order in which create_device created them
C21_DestroyReverseOfCreate ==
    /\ DestroyWaitsThenReleasesInListedOrder
    /\ [](ctx = "destroyed"
          => \A i \in 2..(Len(released) - 1) :
                CreatedAt(Component(released[i]))
                   >= CreatedAt(Component(released[i + 1])))

\* C21 amended: destroy_device waits for the device before it releases anything,
\* then releases each object exactly once in the order staging buffer, pipeline,
\* presentation chain, render pass, synchronization primitives, command pool,
\* surface, device, instance.  That is the reverse of the order of creation but
\* for two pairs: the chain goes before the render pass and the surface before
\* the device, both created in that same order.
C21_DestroyOrder ==
    /\ DestroyWaitsThenReleasesInListedOrder
    /\ [](ctx = "destroyed"
          => \A i, j \in 2..Len(released) :
                (/\ i < j
                 /\ CreatedAt(Component(released[i]))
                      < CreatedAt(Component(released[j])))
                => << Component(released[i]), Component(released[j]) >>
                     \in { << "presentation chain", "render pass" >>,
                           << "surface", "device" >> })

\* a complete context with two chain images was destroyed: all nine components
\* were released
C21_Witness ==
    /\ ctx = "destroyed" /\ last.op = "destroy_device"
    /\ { Component(Releases[i]) : i \in 1..Len(Releases) }
         = { ListedOrder[i] : i \in 1..Len(ListedOrder) }
    /\ Len(SelectSeq(Releases, LAMBDA m : m = "fbs")) = 2
    /\ leaked = 0

\* C22: in every state between API calls the chain's sequences have equal
\* length, images = views = framebuffers = command buffers, also after a chain
\* creation or recreation that failed part-way
C22_ChainLengthsEqual ==
    (ctx = "live" /\ CreatedWhole /\ pc = "idle")
        => /\ d.images = Len(d.views)
           /\ Len(d.views) = Len(d.fbs)
           /\ Len(d.fbs) = Len(d.cbs)

\* C23: in every state between API calls of a live context the presentation
\* chain is absent exactly when the client area is zero.  Stated on the states
\* in which begin_frame has just returned with no Vulkan call having failed, so
\* that the module has seen the client area it is compared with
C23_ChainAbsentIffMinimized ==
    [][ (CreatedWhole /\ last'.op = "begin_frame" /\ last' # last
         /\ last'.fault = NoFault /\ ctx' = "live" /\ pc' = "idle")
        => (d'.swap <=> ~IsZeroArea(winArea')) ]_vars

\* lines 607-613: the draw end_frame would record for what is staged
StagedDraw(dv, data) ==
    IF dv.pending_draw /\ dv.verts_this_frame > 0
    THEN [verts |-> dv.verts_this_frame, color |-> dv.color, data |-> data]
    ELSE NoDraw

\* the draw a draw_lines call asks for
CallDraw(count, color, payload) ==
    IF count > 0 THEN [verts |-> count, color |-> color, data |-> payload] ELSE NoDraw

\* C24 as stated: after every draw_lines call given a vertex array that follows
\* another one between begin_frame and end_frame, the draw end_frame will record
\* is the one of that call, its vertex count, data and color: the final call
\* wins whatever it is, the earlier one being overwritten
C24_FinalCallWins ==
    [][ (InFrame /\ CreatedWhole /\ d.pending_draw /\ last'.op = "draw_lines")
        => \A c \in DrawCounts, w \in Draws :
              DrawLines(TRUE, c, w.color, w.payload)
                 => StagedDraw(d', vdata') = CallDraw(c, w.color, w.payload) ]_vars

\* C24 amended: there is at most one pending draw per frame and the last
\* draw_lines call that staged a payload wins.  Between begin_frame and end_frame
\* a call with vertices, a non-zero count and a payload that fits replaces what
\* was staged, count, data and color, wholesale; a call without vertices, with
\* count 0 or rejected with NOMEM changes nothing; neither the GPU nor the
\* window changes what is staged; and end_frame records exactly the staged draw
\* and clears it
C24_LastStagedWins ==
    [][ /\ (InFrame /\ last'.op = "draw_lines")
           => \A xyz \in BOOLEAN, c \in DrawCounts, w \in Draws :
                 DrawLines(xyz, c, w.color, w.payload)
                    => IF xyz /\ c > 0 /\ ~(c * BytesPerVertex > d.vcap)
                       THEN /\ StagedDraw(d', vdata') = CallDraw(c, w.color, w.payload)
                            /\ d'.vused = c * BytesPerVertex
                            /\ last'.ret = FM_OK
                       ELSE d' = d /\ vdata' = vdata
        /\ (InFrame /\ (GpuComplete \/ \E a \in Areas : WindowChange(a)))
           => StagedDraw(d', vdata') = StagedDraw(d, vdata)
        /\ (InFrame /\ last'.op = "end_frame" /\ ctx' = "live")
           => /\ drawn' = StagedDraw(d, vdata)
              /\ StagedDraw(d', vdata') = NoDraw ]_vars

\* a frame in which a second draw replaced the first was ended: the submission
\* draws the second one
C24_Witness ==
    /\ ctx = "live" /\ CreatedWhole /\ last.op = "end_frame"
    /\ inflight = 1
    /\ drawn = [verts |-> 2, color |-> "blue", data |-> "B"]
    /\ ~d.pending_draw

\* two Devices that differ at most in the chain object, the images, views,
\* framebuffers and command buffers, the extent, the format and the recreate flag
SameButChain(a, b) ==
    [b EXCEPT !.swap = a.swap, !.swapFmt = a.swapFmt, !.extent = a.extent,
              !.images = a.images, !.views = a.views, !.fbs = a.fbs,
              !.cbs = a.cbs, !.needs_recreate = a.needs_recreate] = a

\* C25: a chain recreation, whether it succeeds or fails at any step, preserves
\* the render pass, the pipeline, the staging buffer, the fence, the semaphores
\* and the command pool: of the Device it changes only the chain object, images,
\* views, framebuffers, command buffers, extent, format and the recreate flag.
\* Checked on every step that changes the Device and after which the last call
\* is a resize_swapchain, or a begin_frame that returned NOTREADY or went on to
\* its fence wait, with every step of the recreation failing in turn; the
\* semaphores' signals and the buffer content stay as well
C25_RecreatePreserves ==
    [][ (ctx = "live" /\ pc = "idle" /\ d' # d
         /\ \/ last'.op = "resize_swapchain"
            \/ pc' = "fence_wait"
            \/ last'.op = "begin_frame" /\ last'.ret = FM_E_NOTREADY)
        => /\ SameButChain(d, d')
           /\ UNCHANGED << semAcquireSignaled, semRenderSignaled, vdata >> ]_vars

\* a recreation failed at a framebuffer: the context still has its render pass,
\* pipeline, staging buffer, fence, semaphores and command pool, and a staged draw
C25_Witness ==
    /\ ctx = "live" /\ CreatedWhole /\ d.layout /\ d.vbuf /\ d.vmem
    /\ last.op = "resize_swapchain" /\ last.ret = FM_E_DEVICE
    /\ last.fault.step = "framebuffer"
    /\ d.swap /\ d.cbs = << >> /\ d.pending_draw /\ d.vcap > 0

\* C26: in every state between API calls, if the fence is unsignaled then a frame
\* is being recorded (begin_frame returned OK and end_frame has not submitted
\* yet) or a submission carrying the fence is outstanding: no return path of
\* begin_frame leaves the fence reset with nothing that will signal it
C26_FenceHasSignaler ==
    (ctx = "live" /\ CreatedWhole /\ pc = "idle" /\ ~fenceSignaled)
        => (InFrame \/ inflight > 0)

\* C27: semaphore signals and waits are paired one to one.  semAcquire is handed
\* to an acquire only when it carries no pending signal; an acquire that signals
\* it, a SUBOPTIMAL one included, has a frame whose submission will wait on it,
\* so between calls a pending signal means a frame is being recorded; the
\* submission that ends the frame takes that signal and signals semRender, which
\* carried none; the present of the frame takes the signal of semRender
C27_SemaphoresPaired ==
    /\ []((ctx = "live" /\ CreatedWhole /\ pc = "idle" /\ semAcquireSignaled)
          => InFrame)
    /\ [][ /\ (ctx = "live" /\ CreatedWhole /\ pc = "fence_wait" /\ pc' = "idle"
               /\ semAcquireSignaled')
              => ~semAcquireSignaled
           /\ (Recording /\ CreatedWhole /\ last'.op = "end_frame")
              => /\ semAcquireSignaled /\ ~semAcquireSignaled'
                 /\ ~semRenderSignaled /\ semRenderSignaled'
           /\ (Submitted /\ CreatedWhole /\ last'.op = "present"
               /\ last'.ret # FM_E_DEVICE)
              => (semRenderSignaled /\ ~semRenderSignaled') ]_vars

\* C28: on a context handed out by create_device a pending draw implies that the
\* pipeline, its layout and the mapped staging buffer exist and the capacity is
\* positive; a context whose pipeline or staging buffer could not be created has
\* capacity 0, never has a draw pending, and no end_frame on it records a draw
C28_PendingDrawHasPipelineAndBuffer ==
    /\ (ctx = "live" /\ d.pending_draw)
          => (d.pipe /\ d.layout /\ d.vbuf /\ d.vmem /\ d.mapped /\ d.vcap > 0)
    /\ (ctx = "live" /\ ~(d.pipe /\ d.mapped))
          => (d.vcap = 0 /\ ~d.pending_draw /\ d.verts_this_frame = 0
              /\ drawn = NoDraw)

\* draw_lines with a payload was refused on a context created without its pipeline
C28_Witness ==
    /\ ctx = "live" /\ d.device /\ d.swap /\ ~d.pipe /\ ~d.mapped
    /\ last.op = "draw_lines" /\ last.ret = FM_E_NOMEM
    /\ ~d.pending_draw /\ InFrame

====
